---- MODULE Spec2Model ----
(***************************************************************************)
(* Two programs that turn SIGINT into a pollable event:                    *)
(*   signalfd.c       SIGINT is blocked and read from a signalfd           *)
(*   selfpipetrick.c  a handler writes one byte into a pipe                *)
(* A behaviour is one run of one of the two programs (prog), together with *)
(* the kernel state the program sees: the signal mask, the pending bit of  *)
(* SIGINT (a standard signal: one bit, occurrences merge while it is set), *)
(* the descriptors and their flags, and the bytes buffered in the pipe.    *)
(* System call results are inputs: each call returns one of the results    *)
(* the kernel can produce in the state it is made in.                      *)
(* printf output is recorded when printf is called; stdout is flushed by   *)
(* exit() and by the return from main, so every recorded line is written   *)
(* before the process ends.                                                *)
(***************************************************************************)
EXTENDS Integers, Sequences, FiniteSets, TLC

\* Bounds of the model.
MaxSignals == 3      \* SIGINT occurrences generated in one run
PipeCap == 2         \* bytes the pipe buffers before a write must wait
MaxInterrupts == 2   \* the run of consecutive EINTR results is counted up to this

\* Program constants.
SIGINT == 2
EXIT_SUCCESS == 0
EXIT_FAILURE == 1
O_NONBLOCK == 2048
SizeofSiginfo == 128

TimeoutMsg == "Poll timed out without any signals"
ReceivedMsg == "Received signal"

VARIABLES
    prog,          \* "signalfd" or "selfpipe": the program that runs
    pc,            \* where main is
    hpc,           \* where the signal handler is ("none": not running)
    sigmask,       \* SIGINT is in the process's signal mask
    pending,       \* SIGINT is pending
    handler,       \* signal_action is installed for SIGINT
    signal_fd,     \* signalfd.c: the descriptor signalfd() returned
    pipefds,       \* selfpipetrick.c: static int pipefds[2]
    nonblock,      \* descriptors whose open file has O_NONBLOCK set
    cloexec,       \* descriptors with FD_CLOEXEC set
    pipe,          \* bytes buffered in the pipe
    poll_result,   \* the value the last poll() returned
    errno,
    stdout,        \* lines given to printf, in order
    stderr,        \* operations named by perror, in order
    exit_status,   \* -1 while the process runs
    \* history of the run, read by the properties only
    sent,          \* SIGINT occurrences generated
    early,         \* an occurrence was generated before the polling loop started
    merged,        \* occurrences generated while SIGINT was already pending
    delivered,     \* invocations of signal_action
    lost,          \* handler writes that failed
    filled,        \* the pipe was full at some moment
    eintr_run,     \* consecutive poll() calls that returned EINTR (saturating)
    spurious,      \* a poll() reported ready with nothing to read
    failed,        \* the last wait or read that failed ("" if none)
    setup_failed,  \* a setup call failed
    closed,        \* descriptors closed from outside the program's code
    waited         \* poll() has been called

proc == <<prog, pc, hpc>>
kern == <<sigmask, pending, handler, nonblock, cloexec, pipe>>
fds == <<signal_fd, pipefds>>
regs == <<poll_result, errno>>
outs == <<stdout, stderr, exit_status>>
sigs == <<sent, early, merged>>
wr == <<lost, filled>>
hist == <<delivered, wr, eintr_run, spurious, failed, setup_failed>>
chan == <<closed, waited>>
vars == <<proc, kern, fds, regs, outs, sigs, hist, chan>>

\* main of selfpipetrick.c with the handler installed first.
B_main_order_signal_first == <<"b_signal", "b_pipe", "b_fcntl_0", "b_fcntl_1", "b_poll">>

\* main of selfpipetrick.c up to the loop, in statement order: pipe, the
\* two fcntl calls, signal, then the first poll.
B_main_order == <<"b_pipe", "b_fcntl_0", "b_fcntl_1", "b_signal", "b_poll">>

\* The statement that follows statement p.
B_after(p) == B_main_order[(CHOOSE i \in DOMAIN B_main_order : B_main_order[i] = p) + 1]

LoopPcs == {"a_poll", "a_while", "a_read", "a_read_wait",
            "b_poll", "b_switch", "b_read", "b_read_wait"}
Alive == pc \notin {"exited", "killed", "sigpipe"}
Min(a, b) == IF a < b THEN a ELSE b

\* The notification lines printed so far.
Lines == Cardinality({i \in DOMAIN stdout : stdout[i][1] = ReceivedMsg})

Init ==
    /\ prog \in {"signalfd", "selfpipe"}
    /\ pc = IF prog = "signalfd" THEN "a_sigprocmask" ELSE B_main_order[1]
    /\ hpc = "none"
    /\ sigmask = FALSE /\ pending = FALSE /\ handler = FALSE
    /\ signal_fd = -1
    /\ pipefds = <<0, 0>>
    /\ nonblock = {} /\ cloexec = {}
    /\ pipe = 0
    /\ poll_result = 0 /\ errno = "none"
    /\ stdout = <<>> /\ stderr = <<>> /\ exit_status = -1
    /\ sent = 0 /\ early = FALSE /\ merged = 0
    /\ delivered = 0 /\ lost = 0 /\ filled = FALSE /\ eintr_run = 0
    /\ spurious = FALSE /\ failed = "" /\ setup_failed = FALSE
    /\ closed = {} /\ waited = FALSE

----------------------------------------------------------------------------
(* The environment: SIGINT is generated for the process.                   *)

\* kill(pid, SIGINT) or Ctrl-C: sets the pending bit; an occurrence
\* generated while the bit is set is merged into the pending one.
kill_SIGINT ==
    /\ Alive
    /\ sent < MaxSignals
    /\ sent' = sent + 1
    /\ early' = (early \/ pc \notin LoopPcs)
    /\ merged' = IF pending THEN merged + 1 ELSE merged
    /\ pending' = TRUE
    /\ UNCHANGED <<proc, sigmask, handler, nonblock, cloexec, pipe, fds, regs, outs, hist>>
    /\ UNCHANGED chan

\* SIGINT delivered with the default disposition: the process is terminated.
deliver_default ==
    /\ Alive
    /\ pending /\ ~sigmask /\ ~handler
    /\ pending' = FALSE
    /\ pc' = "killed"
    /\ UNCHANGED <<prog, hpc, sigmask, handler, nonblock, cloexec, pipe, fds, regs, outs, sigs, hist>>
    /\ UNCHANGED chan

----------------------------------------------------------------------------
(* Kernel and libc calls both programs use.                                *)

\* The descriptor the loop polls and reads: signal_fd in signalfd.c,
\* pipefds[0] in selfpipetrick.c.
ReadEnd == IF prog = "signalfd" THEN signal_fd ELSE pipefds[1]

OpenFds ==
    ({0, 1, 2}
     \cup (IF signal_fd >= 0 THEN {signal_fd} ELSE {})
     \cup (IF pipefds # <<0, 0>> THEN {pipefds[1], pipefds[2]} ELSE {}))
    \ closed

\* The read end of the event channel is closed from outside the program's
\* code (neither program closes a descriptor), before the first poll().
close_read_end ==
    /\ Alive /\ ~waited
    /\ IF prog = "signalfd" THEN signal_fd >= 0 ELSE pipefds # <<0, 0>>
    /\ ReadEnd \in OpenFds
    /\ closed' = closed \cup {ReadEnd}
    /\ UNCHANGED <<proc, kern, fds, regs, outs, sigs, hist, waited>>

\* poll(&pollfd, 1, 5000) on one descriptor asking for POLLIN. A negative
\* descriptor is ignored, so only the timeout or an error ends the call.
\* EINTR (a signal was handled, or the process was stopped and continued)
\* and ENOMEM can end any call; a ready report with nothing to read is the
\* spurious wake-up. A descriptor that is not open is reported at once
\* (POLLNVAL), which counts in the result.
poll(fd, readable) ==
    {[r |-> -1, e |-> "EINTR"], [r |-> -1, e |-> "ENOMEM"]}
    \cup (IF fd < 0 THEN {[r |-> 0, e |-> errno]}
          ELSE IF fd \notin OpenFds THEN {[r |-> 1, e |-> errno]}
          ELSE IF readable THEN {[r |-> 1, e |-> errno]}
          ELSE {[r |-> 0, e |-> errno], [r |-> 1, e |-> errno]})

\* read(fd, buf, size) on a descriptor that delivers whole items of `size`
\* bytes (a signalfd record, one byte of the pipe). With nothing to read a
\* non-blocking descriptor fails with EAGAIN and a blocking one waits.
\* Any call can also fail (EIO) or return a count short of `size` (0).
read(fd, available, size) ==
    {[n |-> -1, e |-> "EIO", wait |-> FALSE], [n |-> 0, e |-> errno, wait |-> FALSE]}
    \cup (IF fd \notin OpenFds THEN {[n |-> -1, e |-> "EBADF", wait |-> FALSE]}
          ELSE IF available THEN {[n |-> size, e |-> errno, wait |-> FALSE]}
          ELSE IF fd \in nonblock THEN {[n |-> -1, e |-> "EAGAIN", wait |-> FALSE]}
          ELSE {[n |-> 0, e |-> errno, wait |-> TRUE]})

\* fcntl(fd, cmd, arg). F_SETFD stores the descriptor flags, of which only
\* FD_CLOEXEC (bit 0) exists; F_SETFL stores the file status flags.
fcntl(fd, cmd, arg) ==
    IF fd \notin OpenFds
    THEN [ret |-> -1, nb |-> nonblock, ce |-> cloexec]
    ELSE IF cmd = "F_SETFD"
    THEN [ret |-> 0, nb |-> nonblock,
          ce |-> IF arg % 2 = 1 THEN cloexec \cup {fd} ELSE cloexec \ {fd}]
    ELSE [ret |-> 0, ce |-> cloexec,
          nb |-> IF (arg \div O_NONBLOCK) % 2 = 1 THEN nonblock \cup {fd}
                 ELSE nonblock \ {fd}]

strsignal(signo) == IF signo = SIGINT THEN "Interrupt" ELSE "Unknown signal"

\* One more consecutive EINTR, counted up to MaxInterrupts.
NextRun(e) == IF e = "EINTR" THEN Min(eintr_run + 1, MaxInterrupts) ELSE 0

----------------------------------------------------------------------------
(* signalfd.c                                                              *)

\* The mask left empty: sigaddset forgotten.
A_mask_empty == {}

\* sigset_t mask; sigemptyset(&mask); sigaddset(&mask, SIGINT);
A_mask == {SIGINT}

\* sigprocmask(SIG_SETMASK, &mask, NULL); the result is not looked at.
A_sigprocmask ==
    /\ prog = "signalfd" /\ pc = "a_sigprocmask"
    /\ sigmask' = (SIGINT \in A_mask)
    /\ pc' = "a_signalfd"
    /\ UNCHANGED <<prog, hpc, pending, handler, nonblock, cloexec, pipe, fds, regs, outs, sigs, hist>>
    /\ UNCHANGED chan

\* The flags signalfd() is called with.
signalfd_flags == {"SFD_NONBLOCK"}

\* int signal_fd = signalfd(-1, &mask, SFD_NONBLOCK); -1 when no descriptor
\* can be had (EMFILE, ENFILE, ENOMEM). The result is not looked at.
A_signalfd ==
    /\ prog = "signalfd" /\ pc = "a_signalfd"
    /\ \E ok \in BOOLEAN :
         IF ok
         THEN /\ signal_fd' = 3
              /\ nonblock' = IF "SFD_NONBLOCK" \in signalfd_flags
                             THEN nonblock \cup {3} ELSE nonblock
              /\ UNCHANGED <<errno, setup_failed>>
         ELSE /\ signal_fd' = -1
              /\ errno' = "EMFILE"
              /\ setup_failed' = TRUE
              /\ UNCHANGED nonblock
    /\ pc' = "a_poll"
    /\ UNCHANGED <<prog, hpc, sigmask, pending, handler, cloexec, pipe, pipefds,
                   poll_result, outs, sigs, delivered, wr, eintr_run, spurious, failed>>
    /\ UNCHANGED chan

\* The signalfd is readable while a signal of its mask is pending.
A_readable == signal_fd \in OpenFds /\ pending /\ SIGINT \in A_mask

\* poll(&pollfd, 1, 5000) in the loop condition.
A_poll ==
    /\ prog = "signalfd" /\ pc = "a_poll"
    /\ \E o \in poll(signal_fd, A_readable) :
         /\ poll_result' = o.r
         /\ errno' = o.e
         /\ eintr_run' = NextRun(IF o.r = -1 THEN o.e ELSE "none")
         /\ spurious' = (spurious \/ (o.r = 1 /\ ~A_readable))
         /\ failed' = IF o.r = -1 /\ o.e # "EINTR" THEN "poll" ELSE failed
    /\ pc' = "a_while"
    /\ waited' = TRUE
    /\ UNCHANGED <<prog, hpc, kern, fds, outs, sigs, delivered, wr, setup_failed, closed>>

\* The loop test taking any non-zero result for ready.
A_LoopCond_nonzero(r) == r # 0

\* while (poll(...) > 0)
A_LoopCond(r) == r > 0

\* The loop test: the body runs on a positive result; otherwise main
\* returns, which ends the process with status 0.
A_while ==
    /\ prog = "signalfd" /\ pc = "a_while"
    /\ IF A_LoopCond(poll_result)
       THEN /\ pc' = "a_read"
            /\ UNCHANGED outs
       ELSE /\ pc' = "exited"
            /\ exit_status' = 0
            /\ UNCHANGED <<stdout, stderr>>
    /\ UNCHANGED <<prog, hpc, kern, fds, regs, sigs, hist>>
    /\ UNCHANGED chan

\* The size test inverted.
A_ReadFailed_inverted(s) == s = SizeofSiginfo

\* if (s != sizeof(siginfo))
A_ReadFailed(s) == s # SizeofSiginfo

\* The record a signalfd read returns for a pending signal sent with
\* kill(): its number in ssi_signo, no errno, code SI_USER (0).
signalfd_siginfo(sig) == [ssi_signo |-> sig, ssi_errno |-> 0, ssi_code |-> 0]

\* The code field taken for the signal number.
A_signo_code(siginfo) == siginfo.ssi_code

\* uint32_t signo = siginfo.ssi_signo;
A_signo(siginfo) == siginfo.ssi_signo

\* handle_signal(pollfd.fd): read one record; on any other count perror
\* and exit(1); else print the signal number and its name.
A_handle_signal ==
    /\ prog = "signalfd" /\ pc \in {"a_read", "a_read_wait"}
    /\ \E res \in read(signal_fd, A_readable, SizeofSiginfo) :
         /\ pc = "a_read_wait" => res.n = SizeofSiginfo
         /\ IF res.wait
            THEN /\ pc' = "a_read_wait"
                 /\ UNCHANGED <<pending, errno, outs, failed>>
            ELSE /\ errno' = res.e
                 /\ pending' = IF res.n = SizeofSiginfo THEN FALSE ELSE pending
                 /\ IF A_ReadFailed(res.n)
                    THEN /\ stderr' = Append(stderr, "read")
                         /\ exit_status' = 1
                         /\ pc' = "exited"
                         /\ failed' = "read"
                         /\ UNCHANGED stdout
                    ELSE /\ LET signo == A_signo(signalfd_siginfo(SIGINT)) IN
                              stdout' = Append(stdout, <<ReceivedMsg, signo, strsignal(signo)>>)
                         /\ pc' = "a_poll"
                         /\ UNCHANGED <<stderr, exit_status, failed>>
    /\ UNCHANGED <<prog, hpc, sigmask, handler, nonblock, cloexec, pipe, fds, poll_result,
                   sigs, delivered, wr, eintr_run, spurious, setup_failed>>
    /\ UNCHANGED chan

A_Next ==
    \/ A_sigprocmask
    \/ A_signalfd
    \/ A_poll
    \/ A_while
    \/ A_handle_signal

----------------------------------------------------------------------------
(* selfpipetrick.c                                                         *)

\* perror without the exit: control returns to the caller.
handle_err_returns(desc, ret) ==
    /\ stderr' = Append(stderr, desc)
    /\ pc' = ret
    /\ UNCHANGED exit_status

\* handle_err(desc): perror(desc); exit(EXIT_FAILURE). exit does not
\* return, so control never reaches `ret`, the place of the call's return.
handle_err(desc, ret) ==
    /\ stderr' = Append(stderr, desc)
    /\ exit_status' = EXIT_FAILURE
    /\ pc' = "exited"

\* if (pipe(pipefds) == -1) handle_err("pipe"); -1 when no descriptors can
\* be had (EMFILE, ENFILE). A new pipe is empty, blocking at both ends.
B_pipe ==
    /\ prog = "selfpipe" /\ pc = "b_pipe" /\ hpc = "none"
    /\ \E ok \in BOOLEAN :
         IF ok
         THEN /\ pipefds' = <<3, 4>>
              /\ pc' = B_after("b_pipe")
              /\ UNCHANGED <<errno, outs, setup_failed>>
         ELSE /\ errno' = "EMFILE"
              /\ setup_failed' = TRUE
              /\ handle_err("pipe", B_after("b_pipe"))
              /\ UNCHANGED <<pipefds, stdout>>
    /\ UNCHANGED <<prog, hpc, kern, signal_fd, poll_result, sigs,
                   delivered, wr, eintr_run, spurious, failed>>
    /\ UNCHANGED chan

\* The command both fcntl calls use.
B_fcntl_cmd == "F_SETFD"

\* if (fcntl(pipefds[i], F_SETFD, O_NONBLOCK) == -1) handle_err("fcntl");
B_fcntl(at, fd, next) ==
    /\ prog = "selfpipe" /\ pc = at /\ hpc = "none"
    /\ LET res == fcntl(fd, B_fcntl_cmd, O_NONBLOCK) IN
         /\ nonblock' = res.nb
         /\ cloexec' = res.ce
         /\ IF res.ret = -1
            THEN /\ errno' = "EBADF"
                 /\ setup_failed' = TRUE
                 /\ handle_err("fcntl", next)
                 /\ UNCHANGED stdout
            ELSE /\ pc' = next
                 /\ UNCHANGED <<errno, outs, setup_failed>>
    /\ UNCHANGED <<prog, hpc, sigmask, pending, handler, pipe, fds, poll_result, sigs,
                   delivered, wr, eintr_run, spurious, failed>>
    /\ UNCHANGED chan

B_fcntl_0 == B_fcntl("b_fcntl_0", pipefds[1], B_after("b_fcntl_0"))
B_fcntl_1 == B_fcntl("b_fcntl_1", pipefds[2], B_after("b_fcntl_1"))

\* SIGINT left with its default disposition.
B_disposition_default == "SIG_DFL"

\* The disposition signal() is given for SIGINT.
B_disposition == "signal_action"

\* int read_fd = pipefds[0]; signal(SIGINT, signal_action); the result is
\* not looked at. glibc's signal() installs the handler with BSD semantics:
\* it stays installed, SIGINT is blocked while it runs, and interrupted
\* calls other than poll are restarted.
B_signal ==
    /\ prog = "selfpipe" /\ pc = "b_signal" /\ hpc = "none"
    /\ handler' = (B_disposition = "signal_action")
    /\ pc' = B_after("b_signal")
    /\ UNCHANGED <<prog, hpc, sigmask, pending, nonblock, cloexec, pipe, fds, regs, outs, sigs, hist>>
    /\ UNCHANGED chan

\* SIGINT is delivered to the installed handler: signal_action starts on
\* top of main, wherever main is, with SIGINT blocked until it returns.
deliver_handler ==
    /\ Alive
    /\ pending /\ ~sigmask /\ handler /\ hpc = "none"
    /\ pending' = FALSE
    /\ hpc' = "write"
    /\ delivered' = delivered + 1
    /\ UNCHANGED <<prog, pc, sigmask, handler, nonblock, cloexec, pipe, fds, regs, outs, sigs,
                   wr, eintr_run, spurious, failed, setup_failed>>
    /\ UNCHANGED chan

\* write(fd, buf, 1) to the write end of the pipe: with room the byte is
\* buffered; with the pipe full a non-blocking descriptor fails with EAGAIN
\* and a blocking one waits for a reader. With the read end closed the
\* write fails with EPIPE and raises SIGPIPE.
write(fd) ==
    IF fd \notin OpenFds \/ fd # pipefds[2] \/ pipefds = <<0, 0>>
    THEN [n |-> -1, e |-> "EBADF", wait |-> FALSE]
    ELSE IF pipefds[1] \in closed THEN [n |-> -1, e |-> "EPIPE", wait |-> FALSE]
    ELSE IF pipe < PipeCap THEN [n |-> 1, e |-> errno, wait |-> FALSE]
    ELSE IF fd \in nonblock THEN [n |-> -1, e |-> "EAGAIN", wait |-> FALSE]
    ELSE [n |-> 0, e |-> errno, wait |-> TRUE]

\* signal_action(signum): write one byte to pipefds[1]; the result is not
\* looked at, and errno is left as the write set it. A write that waits is
\* resumed only when it can end. SIGPIPE has its default disposition: it
\* terminates the process.
signal_action ==
    /\ prog = "selfpipe" /\ hpc \in {"write", "write_wait"}
    /\ LET res == write(pipefds[2]) IN
         /\ hpc = "write_wait" => ~res.wait
         /\ IF res.wait
            THEN /\ hpc' = "write_wait"
                 /\ filled' = TRUE
                 /\ UNCHANGED <<pc, pipe, errno, lost>>
            ELSE /\ hpc' = "none"
                 /\ pipe' = IF res.n = 1 THEN pipe + 1 ELSE pipe
                 /\ errno' = res.e
                 /\ lost' = IF res.n = 1 THEN lost ELSE lost + 1
                 /\ filled' = (filled \/ pipe' = PipeCap)
                 /\ pc' = IF res.e = "EPIPE" THEN "sigpipe" ELSE pc
    /\ UNCHANGED <<prog, sigmask, pending, handler, nonblock, cloexec, fds, poll_result,
                   outs, sigs, delivered, eintr_run, spurious, failed, setup_failed>>
    /\ UNCHANGED chan

\* int poll_result = poll(&pollfd, 1, 5000);
B_poll ==
    /\ prog = "selfpipe" /\ pc = "b_poll" /\ hpc = "none"
    /\ \E o \in poll(pipefds[1], pipe > 0) :
         /\ poll_result' = o.r
         /\ errno' = o.e
         /\ eintr_run' = NextRun(IF o.r = -1 THEN o.e ELSE "none")
         /\ spurious' = (spurious \/ (o.r = 1 /\ pipe = 0))
         /\ failed' = IF o.r = -1 /\ o.e # "EINTR" THEN "poll" ELSE failed
    /\ pc' = "b_switch"
    /\ waited' = TRUE
    /\ UNCHANGED <<prog, hpc, kern, fds, outs, sigs, delivered, wr, setup_failed, closed>>

\* The timeout case exiting with failure.
B_timeout_status_failure == EXIT_FAILURE

\* The status the timeout case exits with.
B_timeout_status == EXIT_SUCCESS

\* The errno test against the wrong error.
B_IsInterrupted_eagain(e) == e = "EAGAIN"

\* if (errno == EINTR)
B_IsInterrupted(e) == e = "EINTR"

\* switch (poll_result): case 0 prints the timeout message and exits with
\* success; case -1 polls again on EINTR and else calls handle_err("poll"),
\* after which the code runs on into the default case; default calls
\* handle_signal(read_fd).
B_switch ==
    /\ prog = "selfpipe" /\ pc = "b_switch" /\ hpc = "none"
    /\ IF poll_result = 0
       THEN /\ stdout' = Append(stdout, <<TimeoutMsg>>)
            /\ exit_status' = B_timeout_status
            /\ pc' = "exited"
            /\ UNCHANGED stderr
       ELSE IF poll_result = -1
       THEN IF B_IsInterrupted(errno)
            THEN /\ pc' = "b_poll"
                 /\ UNCHANGED outs
            ELSE /\ handle_err("poll", "b_read")
                 /\ UNCHANGED stdout
       ELSE /\ pc' = "b_read"
            /\ UNCHANGED outs
    /\ UNCHANGED <<prog, hpc, kern, fds, regs, sigs, hist>>
    /\ UNCHANGED chan

\* The count test inverted.
B_ReadFailed_inverted(n) == n = 1

\* The count test taking only an error for a failure.
B_ReadFailed_negative(n) == n < 0

\* if (read(signal_fd, buff, 1) != 1)
B_ReadFailed(n) == n # 1

\* handle_signal(read_fd): read one byte; on any other count
\* handle_err("read"); else print the notification and go round the loop.
\* A read that waits is resumed once a byte is there (a handler that ran
\* meanwhile does not end it: the call is restarted).
B_handle_signal ==
    /\ prog = "selfpipe" /\ pc \in {"b_read", "b_read_wait"} /\ hpc = "none"
    /\ \E res \in read(pipefds[1], pipe > 0, 1) :
         /\ pc = "b_read_wait" => res.n = 1
         /\ IF res.wait
            THEN /\ pc' = "b_read_wait"
                 /\ UNCHANGED <<pipe, errno, outs, failed>>
            ELSE /\ errno' = res.e
                 /\ pipe' = IF res.n = 1 THEN pipe - 1 ELSE pipe
                 /\ IF B_ReadFailed(res.n)
                    THEN /\ handle_err("read", "b_poll")
                         /\ failed' = "read"
                         /\ UNCHANGED stdout
                    ELSE /\ stdout' = Append(stdout, <<ReceivedMsg>>)
                         /\ pc' = "b_poll"
                         /\ UNCHANGED <<stderr, exit_status, failed>>
    /\ UNCHANGED <<prog, hpc, sigmask, pending, handler, nonblock, cloexec, fds, poll_result,
                   sigs, delivered, wr, eintr_run, spurious, setup_failed>>
    /\ UNCHANGED chan

B_Next ==
    \/ B_pipe
    \/ B_fcntl_0
    \/ B_fcntl_1
    \/ B_signal
    \/ deliver_handler
    \/ signal_action
    \/ B_poll
    \/ B_switch
    \/ B_handle_signal

----------------------------------------------------------------------------
Next ==
    \/ kill_SIGINT
    \/ deliver_default
    \/ close_read_end
    \/ A_Next
    \/ B_Next

Spec == Init /\ [][Next]_vars

\* A runnable process is scheduled, and every call it makes returns, save
\* a read or write that waits for the other end: poll returns after 5 s.
FairSpec == Spec /\ WF_vars(A_Next \/ B_Next)

----------------------------------------------------------------------------
(* Properties.                                                             *)

\* No wait or read failed or was interrupted, none reported ready without
\* data, setup succeeded, and no descriptor was closed from outside.
NoFault == ~spurious /\ failed = "" /\ ~setup_failed /\ eintr_run = 0 /\ closed = {}

Exited == pc = "exited"

\* C1 as stated: when selfpipetrick ends, having had N handler invocations,
\* the pipe never full, and no wait or read failed or reported ready
\* without data, it has printed exactly N notification lines.
C1_ExactlyNLines ==
    (prog = "selfpipe" /\ Exited /\ ~filled /\ lost = 0 /\ failed = "" /\ ~spurious)
        => Lines = delivered

\* C1 amended: when selfpipetrick ends with the pipe never full, the lines
\* printed are the handler invocations less the bytes left unread in the
\* pipe (occurrences delivered after the last poll returned, or left behind
\* by a fatal error); with no byte left unread they are exactly N.
C1_LinesAtExit ==
    (prog = "selfpipe" /\ Exited /\ ~filled) => Lines = delivered - pipe

C1_Witness ==
    /\ prog = "selfpipe" /\ Exited /\ ~filled
    /\ delivered = 2 /\ Lines = 2 /\ pipe = 0 /\ exit_status = EXIT_SUCCESS

\* C2 as stated: when signalfd.c ends after N occurrences, all generated
\* while the loop ran, with nothing failing and none left pending, it has
\* printed exactly N notification lines.
C2_ExactlyNLines ==
    (prog = "signalfd" /\ Exited /\ ~early /\ NoFault /\ ~pending) => Lines = sent

\* C2 amended: SIGINT is not queued: occurrences generated while one is
\* pending are merged into it. When signalfd.c ends it has printed one line
\* per occurrence that was not merged, less the one still pending.
C2_LinesAtExit ==
    (prog = "signalfd" /\ Exited) =>
        Lines = sent - merged - (IF pending THEN 1 ELSE 0)

C2_Witness ==
    /\ prog = "signalfd" /\ Exited /\ ~early /\ NoFault /\ ~pending
    /\ sent = 3 /\ merged = 1 /\ Lines = 2

\* C3: with no spurious readiness, selfpipetrick is suspended nowhere but
\* in poll: the handler's write never waits on a full pipe, and the read
\* never waits.
C3_OnlyPollSuspends ==
    (prog = "selfpipe" /\ ~spurious) => (hpc # "write_wait" /\ pc # "b_read_wait")

\* C4: a read entered with nothing to read (after a spurious wake-up)
\* never waits, in either program: it fails at once.
C4_ReadNeverWaits == pc \notin {"a_read_wait", "b_read_wait"}

\* C5: when the last poll of selfpipetrick returned EINTR, the step main
\* takes next (no handler running over it) goes back to poll, and prints nothing, does not exit, and
\* reads nothing from the pipe.
C5_EintrRewaits ==
    [][(prog = "selfpipe" /\ pc = "b_switch" /\ eintr_run > 0 /\ hpc = "none" /\ pc' # pc)
         => (pc' = "b_poll" /\ UNCHANGED <<stdout, stderr, exit_status, pipe>>)]_vars

C5_Witness ==
    /\ prog = "selfpipe" /\ pc = "b_poll" /\ eintr_run = MaxInterrupts
    /\ stderr = <<>> /\ stdout = <<>> /\ exit_status = -1

\* The process ended by the timeout path: the last poll returned 0, no
\* notification and no diagnostic was printed, the status is success, and
\* selfpipetrick printed the timeout message, signalfd.c nothing.
TimeoutPath ==
    /\ Exited /\ poll_result = 0
    /\ exit_status = 0 /\ stderr = <<>>
    /\ stdout = IF prog = "selfpipe" THEN << <<TimeoutMsg>> >> ELSE <<>>

\* C6: a run in which SIGINT is never generated and every wait lets its
\* timeout elapse reaches the timeout path, in both programs.
C6_QuietRunTimesOut == [](sent = 0 /\ NoFault) => <>TimeoutPath

C6_Witness == prog = "selfpipe" /\ sent = 0 /\ NoFault /\ TimeoutPath

\* C7: once a setup call has failed, the process is never in the polling
\* loop, and when it has ended it has printed a diagnostic and the status
\* is failure.
C7_SetupFailureIsFatal ==
    setup_failed =>
        /\ pc \notin LoopPcs
        /\ Exited => (exit_status # 0 /\ stderr # <<>>)

\* C8: when the process, its setup having succeeded, has ended after a
\* wait failed (other than by interruption) or a read failed, the last
\* diagnostic names that operation and the status is not 0.
C8_FailureIsReported ==
    (Exited /\ failed # "" /\ ~setup_failed) =>
        /\ exit_status # 0
        /\ stderr # <<>> /\ stderr[Len(stderr)] = failed

\* C9: in signalfd.c the step after a wait enters the consume exactly when
\* the wait returned a positive result and otherwise ends the process
\* without printing; the consume is entered from nowhere else, and a
\* process that has ended takes no further step.
C9_LoopPolicy ==
    [][prog = "signalfd" =>
         /\ (pc = "a_while" /\ pc' # pc) =>
                IF poll_result > 0 THEN pc' = "a_read"
                ELSE pc' = "exited" /\ UNCHANGED <<stdout, stderr>>
         /\ (pc' = "a_read" /\ pc' # pc) => (pc = "a_while" /\ poll_result > 0)
         /\ (pc' = "a_poll" /\ pc' # pc) => pc \in {"a_signalfd", "a_read", "a_read_wait"}
         /\ pc = "exited" => pc' = "exited"]_vars

C9_Witness ==
    /\ prog = "signalfd" /\ Exited
    /\ Lines = 2 /\ poll_result = -1 /\ stderr = <<>>

\* C10: once selfpipetrick has installed its handler and entered the loop
\* it is never killed by SIGINT, and when it has ended it has either timed
\* out (last poll 0, timeout message last, no diagnostic, status success)
\* or failed (a wait or read failed, that one diagnostic, no timeout
\* message, status failure).
C10_LoopExits ==
    (prog = "selfpipe" /\ handler) =>
        /\ pc # "killed"
        /\ Exited =>
             \/ /\ poll_result = 0
                /\ exit_status = EXIT_SUCCESS
                /\ stdout[Len(stdout)] = <<TimeoutMsg>>
                /\ stderr = <<>>
             \/ /\ failed \in {"poll", "read"}
                /\ exit_status = EXIT_FAILURE
                /\ stderr = <<failed>>
                /\ \A i \in DOMAIN stdout : stdout[i] # <<TimeoutMsg>>

C10_Witness ==
    /\ prog = "selfpipe" /\ handler /\ Exited
    /\ failed = "read" /\ Lines = 1 /\ exit_status = EXIT_FAILURE

\* C11: while selfpipetrick is in its loop no step kills it; a pending
\* SIGINT is taken only by starting signal_action on top of main, wherever
\* main is, and a started signal_action attempts its one-byte write: the
\* byte is buffered, or the write waits or fails.
C11_SigintBecomesWrite ==
    [][(prog = "selfpipe" /\ pc \in LoopPcs) =>
         /\ pc' # "killed"
         /\ (pending /\ ~pending') =>
                (hpc = "none" /\ hpc' = "write" /\ pc' = pc /\ delivered' = delivered + 1)
         /\ (hpc = "write" /\ hpc' # hpc) =>
                (pipe' = pipe + 1 \/ hpc' = "write_wait" \/ lost' = lost + 1)]_vars

\* The handler runs over main's consume while a further SIGINT, generated
\* while the handler runs, is pending.
C11_Witness ==
    /\ prog = "selfpipe" /\ pc = "b_read" /\ hpc = "write"
    /\ pending /\ delivered = 2 /\ Lines = 1

\* C12: once signalfd.c has changed its mask no step kills it; a SIGINT
\* pending from then on stays pending until a consume takes it, and that
\* consume prints a notification line; a consume entered with SIGINT
\* pending whose read does not fail prints one.
C12_BlockedThenReported ==
    [][(prog = "signalfd" /\ Alive /\ pc # "a_sigprocmask") =>
         /\ pc' # "killed"
         /\ (pending /\ ~pending') =>
                (pc \in {"a_read", "a_read_wait"} /\ pc' = "a_poll" /\ Lines' = Lines + 1)
         /\ (pc = "a_read" /\ pending /\ pc' # pc /\ failed' = failed) =>
                Lines' = Lines + 1]_vars

\* The one occurrence arrived before the loop, and the consume after the
\* first wait (no earlier wait can have returned) has reported it.
C12_Witness ==
    /\ prog = "signalfd" /\ pc = "a_poll"
    /\ early /\ sent = 1 /\ ~pending /\ Lines = 1 /\ NoFault

\* A step in which a read of main returns to its caller, and whether it took a
\* whole item (the pending SIGINT's record, one byte of the pipe).
ReadReturns == /\ pc \in {"a_read", "a_read_wait", "b_read", "b_read_wait"} /\ hpc = "none"
               /\ pc' # pc /\ pc' \notin {"a_read_wait", "b_read_wait"}
ReadTookItem == IF prog = "signalfd" THEN pending /\ ~pending' ELSE pipe' = pipe - 1

\* C13: in both programs a read that returns without a whole item (an
\* error, or a short count) is followed at once by the "read" diagnostic
\* and exit with failure, with nothing printed on stdout and no second
\* read; a read that took a whole item prints one line and polls again.
C13_ShortReadIsFatal ==
    [][ReadReturns =>
         IF ReadTookItem
         THEN /\ pc' \in {"a_poll", "b_poll"}
              /\ Lines' = Lines + 1 /\ stderr' = stderr /\ exit_status' = exit_status
         ELSE /\ pc' = "exited"
              /\ stderr' = Append(stderr, "read")
              /\ exit_status' = EXIT_FAILURE
              /\ stdout' = stdout]_vars

\* selfpipetrick has ended on a read that returned 0 with a byte buffered.
C13_Witness ==
    /\ prog = "selfpipe" /\ Exited /\ failed = "read" /\ stderr = <<"read">>
    /\ errno = "none" /\ pipe = 1 /\ Lines = 1 /\ exit_status = EXIT_FAILURE

C15_HandlerAlwaysReturns ==
    [][(prog = "selfpipe" /\ closed = {} /\ hpc = "write" /\ hpc' # hpc) =>
         /\ hpc' = "none"
         /\ pc' = pc /\ UNCHANGED outs
         /\ pipe' = pipe => lost' = lost + 1]_vars

\* C16 as stated: when selfpipetrick has ended with nothing having failed
\* and the pipe never full, it has printed one notification line per
\* handler invocation, the timeout message last, and the status is success.
C16_AllReportedAtExit ==
    (prog = "selfpipe" /\ Exited /\ NoFault /\ ~filled) =>
        /\ exit_status = EXIT_SUCCESS
        /\ stdout[Len(stdout)] = <<TimeoutMsg>>
        /\ Lines = delivered

\* selfpipetrick has ended by the timeout case, each handler invocation
\* reported by one line save those whose byte is still in the pipe.
B_TimedOut ==
    /\ Exited /\ exit_status = EXIT_SUCCESS
    /\ Len(stdout) = Lines + 1 /\ stdout[Len(stdout)] = <<TimeoutMsg>>
    /\ Lines = delivered - pipe

\* C16 amended: a run of selfpipetrick that is not killed before its
\* handler is installed, in which no wait or read fails or reports ready
\* without data and poll is interrupted only finitely often, comes to the
\* timeout exit having reported every handler invocation whose byte main
\* read, or else hangs in the handler's write on a full pipe.
C16_EventuallyTimesOut ==
    ([](prog = "selfpipe" /\ pc # "killed" /\ ~spurious /\ failed = ""
          /\ ~setup_failed /\ closed = {})
       /\ <>[](eintr_run = 0))
    => <>(B_TimedOut \/ hpc = "write_wait")

\* One occurrence: one notification line, the timeout message, success.
C16_Witness ==
    /\ prog = "selfpipe" /\ NoFault /\ sent = 1 /\ delivered = 1 /\ B_TimedOut
    /\ stdout = << <<ReceivedMsg>>, <<TimeoutMsg>> >>

\* C17: every line signalfd.c has printed carries the number of SIGINT,
\* the one signal of the descriptor's mask, and its name.
C17_OnlySigintNamed ==
    prog = "signalfd" =>
        /\ A_mask = {SIGINT}
        /\ \A i \in DOMAIN stdout : stdout[i] = <<ReceivedMsg, SIGINT, "Interrupt">>

\* Two records consumed and printed.
C17_Witness ==
    /\ prog = "signalfd" /\ pc = "a_poll" /\ sent = 2 /\ merged = 0
    /\ Len(stdout) = 2 /\ stdout[2][2] = SIGINT

\* C18: when poll of selfpipetrick has failed with an error other than
\* EINTR, the step main takes next prints the "poll" diagnostic and exits
\* with failure, reading nothing from the pipe and printing no line; and
\* a process that has exited reads and prints nothing more.
C18_NoFallThrough ==
    [][prog = "selfpipe" =>
         /\ (pc = "b_switch" /\ hpc = "none" /\ poll_result = -1 /\ errno # "EINTR"
               /\ pc' # pc) =>
                /\ pc' = "exited"
                /\ stderr' = Append(stderr, "poll")
                /\ exit_status' = EXIT_FAILURE
                /\ UNCHANGED <<stdout, pipe>>
         /\ pc = "exited" => (pc' = "exited" /\ UNCHANGED <<stdout, stderr, pipe>>)]_vars

\* poll failed with a byte waiting in the pipe; the byte was not read.
C18_Witness ==
    /\ prog = "selfpipe" /\ Exited /\ failed = "poll" /\ errno = "ENOMEM"
    /\ stderr = <<"poll">> /\ exit_status = EXIT_FAILURE /\ pipe = 1 /\ stdout = <<>>

\* Handler writes that buffered their byte: the invocations, less those
\* whose write failed and the one still in its write.
B_Written == delivered - lost - (IF hpc \in {"write", "write_wait"} THEN 1 ELSE 0)

\* C19: in selfpipetrick the bytes buffered in the pipe are the handler
\* writes that succeeded less the consumes that succeeded (one line
\* each), so never more than one byte per invocation not yet reported.
C19_PipeAccounting ==
    prog = "selfpipe" =>
        /\ pipe = B_Written - Lines
        /\ pipe >= 0 /\ pipe <= delivered - Lines

\* Three writes, one consume, two bytes buffered.
C19_Witness ==
    /\ prog = "selfpipe" /\ delivered = 3 /\ hpc = "none" /\ lost = 0
    /\ Lines = 1 /\ pipe = 2 /\ pc = "b_poll"

\* C20: whenever signal_action is installed or running, the pipe has
\* been created: pipefds no longer holds its initial zeros, and the
\* descriptor the handler writes to is the open write end of the pipe,
\* not descriptor 0.
C20_HandlerWritesToPipe ==
    (prog = "selfpipe" /\ (handler \/ hpc # "none")) =>
        /\ pipefds = <<3, 4>>
        /\ pipefds[2] # 0 /\ pipefds[2] \in OpenFds

\* The handler runs straight after signal() returned, before the first
\* poll, for a SIGINT generated during setup.
C20_Witness ==
    /\ prog = "selfpipe" /\ hpc = "write" /\ pc = "b_poll" /\ ~waited
    /\ early /\ delivered = 1 /\ pipefds[2] = 4

====
